---- MODULE Spec2Model ----
(***************************************************************************)
(* A model of the react-components library: the SidebarProvider state      *)
(* machine (ui/sidebar.tsx), AppSidebar's active-route test, Layout's      *)
(* scroll save/restore effects and the ErrorBoundary class component.      *)
(*                                                                         *)
(* React's hook state is modelled as the value committed by the last       *)
(* render plus the updates queued since (React 18 batches the updates of   *)
(* one task and renders later); a Render step commits the queue and runs   *)
(* the effects whose dependencies changed.                                 *)
(***************************************************************************)
EXTENDS Integers, Sequences, FiniteSets, Bags, TLC

VARIABLES
    \* ---- SidebarProvider (ui/sidebar.tsx) ----
    width,           \* window.innerWidth
    cookie,          \* document.cookie: a sequence of rows, each the "="-separated fields of one cookie
    defaultOpen,     \* prop defaultOpen
    openProp,        \* prop open: <<>> when not given, <<b>> when given
    hasOnOpenChange, \* whether prop onOpenChange (setOpenProp) is given
    mounted,         \* the mount effects have run
    isMobile,        \* useState(true), as committed by the last render
    open,            \* useState(false), as committed by the last render
    pendMobile,      \* queued setIsMobile update: <<>> or <<b>>
    pendOpen,        \* queued _setOpen update: <<>> or <<b>>
    prevIsMobileRef, \* prevIsMobileRef.current
    reported,        \* last value handed to onOpenChange: <<>> or <<b>>
    last,            \* the last handler that ran, with its inputs and locals
    hist,            \* history: was the first measurement mobile, has a setOpen call
                     \* resolved to true, has a width >= 768 been measured
    hookResult,      \* outcome of the last useSidebar() call of a consumer
    \* ---- ErrorBoundary (ErrorBoundary.tsx) ----
    ebInstance,      \* which mounted instance this is (a reload or remount makes a new one)
    ebState,         \* this.state: [hasError, error, errorInfo]
    ebPending,       \* the setState of componentDidCatch not yet applied: <<>> or <<update>>
    ebChildren,      \* this.props.children
    ebOutput,        \* what the last render() returned
    ebLogged,        \* number of console.error reports of this instance
    ebLast,          \* the last step of the boundary
    \* ---- AppSidebar (AppSidebar.tsx) ----
    itemPath,        \* item.path of the menu item being rendered
    locPathname,     \* location.pathname
    itemActive,      \* the isActive prop the item's button was rendered with:
                     \* <<>> before AppSidebar has rendered, then <<b>>
    \* ---- Layout (Layout.tsx), scroll save and restore ----
    lyMounted,        \* the mount effects have run
    pathname,         \* location.pathname
    previousPathname, \* previousPathname.current
    scrollPositions,  \* scrollPositions.current: path -> <<>> (no entry) or <<offset>>
    isRestoringRef,   \* isRestoringRef.current
    scrollY,          \* window.scrollY
    scrollHeight,     \* document.body.scrollHeight
    polls,            \* restore polls in flight, a bag of [saved, attempts, latest]:
                      \* savedPosition and attempts of the closure, and whether
                      \* the poll belongs to the latest arrival
    graces,           \* pending 100 ms grace timers: [latest |-> the latest
                      \* arrival's is pending, earlier |-> how many older ones]
    scrollTimeout,    \* the debounce timer: <<>> or <<path its callback writes under>>
    scrollEvent,      \* a scroll event is waiting to be dispatched
    arrivalKind,      \* history: what the latest run of the restore effect did:
                      \* "none" (not run yet), "poll" or "top"
    userScrolled,     \* history: the user scrolled since the last arrival
    \* ---- Layout (Layout.tsx), breadcrumbs; strings are sequences of characters ----
    bcPathname,         \* location.pathname
    routeNames,         \* prop routeNames: its own entries, a set of [key, label]
    getBreadcrumbLabel, \* prop getBreadcrumbLabel: "absent" or the resolver given
    dynamicLabel,       \* useState(null): <<>> for null, <<string>> otherwise
    bcEffectPending,    \* the label effect has to run (its dependencies changed)
    breadcrumbs,        \* getBreadcrumbs() of the last render: <<>> before the
                        \* first render, then <<list>>
    header              \* what PageHeader rendered for each entry of the list

sidebarVars == <<width, cookie, defaultOpen, openProp, hasOnOpenChange, mounted,
                 isMobile, open, pendMobile, pendOpen, prevIsMobileRef, reported,
                 last, hist, hookResult>>

boundaryVars == <<ebInstance, ebState, ebPending, ebChildren, ebOutput, ebLogged, ebLast>>

navVars == <<itemPath, locPathname, itemActive>>

layoutVars == <<lyMounted, pathname, previousPathname, scrollPositions, isRestoringRef,
                scrollY, scrollHeight, polls, graces, scrollTimeout, scrollEvent,
                arrivalKind, userScrolled>>

crumbVars == <<bcPathname, routeNames, getBreadcrumbLabel, dynamicLabel,
               bcEffectPending, breadcrumbs, header>>

vars == <<sidebarVars, boundaryVars, navVars, layoutVars, crumbVars>>

\* What a step of one component leaves alone: the other components.
SidebarFrame == UNCHANGED <<boundaryVars, navVars, layoutVars, crumbVars>>
BoundaryFrame == UNCHANGED <<sidebarVars, navVars, layoutVars, crumbVars>>
NavFrame == UNCHANGED <<sidebarVars, boundaryVars, layoutVars, crumbVars>>
LayoutFrame == UNCHANGED <<sidebarVars, boundaryVars, navVars, crumbVars>>
CrumbFrame == UNCHANGED <<sidebarVars, boundaryVars, navVars, layoutVars>>

\* ------------------------------------------------------------------------
\* Optional values (undefined / a value)
None == <<>>
Some(x) == <<x>>
OrElse(opt, dflt) == IF opt = None THEN dflt ELSE opt[1]

\* ------------------------------------------------------------------------
\* SidebarProvider

SIDEBAR_COOKIE_NAME == "sidebar_state"
MOBILE_BREAKPOINT == 768

\* Viewport widths the model measures: both sides of the breakpoint and the
\* two values next to it.
Widths == {320, 767, 768, 1280}

\* Contents of document.cookie at mount.  A row is the list of the fields
\* that "=" separates: <<"sidebar_state", "true", "1">> is the row
\* sidebar_state=true=1 (name sidebar_state, value "true=1").
InitialCookies ==
    { <<>>,
      << <<SIDEBAR_COOKIE_NAME, "true">> >>,
      << <<SIDEBAR_COOKIE_NAME, "false">> >>,
      << <<SIDEBAR_COOKIE_NAME, "yes">> >>,
      << <<SIDEBAR_COOKIE_NAME, "true", "1">> >>,
      << <<"theme", "dark">>, <<SIDEBAR_COOKIE_NAME, "false">> >>,
      << <<SIDEBAR_COOKIE_NAME>> >> }

\* Arguments of setOpen: the two literals and two updater functions.
Literals == {"true", "false"}
Updaters == {"not", "same"}
SetOpenArgs == Literals \cup Updaters

\* `${openState}` in the template literal
ToStr(b) == IF b THEN "true" ELSE "false"

\* row.startsWith(`${SIDEBAR_COOKIE_NAME}=`)
RowMatches(row) == Len(row) >= 2 /\ row[1] = SIDEBAR_COOKIE_NAME

\* document.cookie.split("; ").find(startsWith ...)?.split("=")[1]
CookieValueRead(jar) ==
    LET hits == {i \in 1..Len(jar) : RowMatches(jar[i])}
    IN IF hits = {} THEN None
       ELSE LET first == CHOOSE i \in hits : \A j \in hits : i <= j
            IN Some(jar[first][2])

\* cookieValue === "true" || cookieValue === "false" ? cookieValue === "true" : defaultOpen
OpenFromCookie(jar, dflt) ==
    LET cookieValue == CookieValueRead(jar)
    IN IF cookieValue = Some("true") \/ cookieValue = Some("false")
       THEN cookieValue = Some("true")
       ELSE dflt

\* (variant) the write adds a row and leaves an older one in place
CookieWriteAppends(jar, b) == Append(jar, <<SIDEBAR_COOKIE_NAME, ToStr(b)>>)

\* document.cookie = `sidebar_state=${openState}; path=/; max-age=...`:
\* the browser replaces the cookie of that name or adds it.
CookieWrite(jar, b) ==
    LET row == <<SIDEBAR_COOKIE_NAME, ToStr(b)>>
        hits == {i \in 1..Len(jar) : jar[i][1] = SIDEBAR_COOKIE_NAME}
    IN IF hits = {} THEN Append(jar, row)
       ELSE [i \in 1..Len(jar) |-> IF i \in hits THEN row ELSE jar[i]]

\* typeof value === "function" ? value(open) : value
ResolveOpen(arg, prev) ==
    CASE arg = "true" -> TRUE
      [] arg = "false" -> FALSE
      [] arg = "not" -> ~prev
      [] OTHER -> prev

\* (variant) the context exposes the internal state whatever the prop is
ExposedOpenInternal == open

\* value.open of the context: openProp ?? open
ExposedOpen == OrElse(openProp, open)

\* (variant) a label that follows the internal state
ExposedStateInternal == IF open THEN "expanded" ELSE "collapsed"

\* value.state of the context: (openProp ?? open) ? "expanded" : "collapsed"
ExposedState == IF OrElse(openProp, open) THEN "expanded" ELSE "collapsed"

\* The context value handed to consumers; setOpen is the callback of the
\* last render, which closes over that render's `open`.
ContextValue ==
    [open |-> ExposedOpen, state |-> ExposedState, isMobile |-> isMobile,
     setOpen |-> [closesOver |-> open]]

\* (variant) no check for a missing provider
useSidebarUnchecked(context) == [threw |-> "", value |-> None]

\* useSidebar(): throws without a provider, else adds toggleSidebar
useSidebar(context) ==
    IF context = None
    THEN [threw |-> "useSidebar must be used within SidebarProvider", value |-> None]
    ELSE [threw |-> "",
          value |-> Some([open |-> context[1].open, state |-> context[1].state,
                          isMobile |-> context[1].isMobile,
                          setOpen |-> context[1].setOpen,
                          toggleSidebar |-> [calls |-> "setOpen", with |-> "not"]])]

\* The record kept of the last handler: its name, the argument of setOpen,
\* the exposed open value before it ran, the local openState it computed,
\* whether it called preventDefault, the isMobile it measured or replaced,
\* and (useSidebar) whether the caller is below the provider.
NoCall == [op |-> "none", arg |-> "", seen |-> FALSE, resolved |-> FALSE,
           prevented |-> FALSE, mobile |-> FALSE, inside |-> FALSE]

SetOpenOps == {"setOpen", "toggleSidebar", "rail", "keydown", "link"}

\* SIDEBAR_KEYBOARD_SHORTCUT and the keys the model presses
SIDEBAR_KEYBOARD_SHORTCUT == "b"
Keys == {"b", "k"}

SidebarInit ==
    /\ width \in Widths
    /\ cookie \in InitialCookies
    /\ defaultOpen \in BOOLEAN
    /\ openProp \in {None, Some(TRUE), Some(FALSE)}
    /\ hasOnOpenChange \in BOOLEAN
    /\ mounted = FALSE
    /\ isMobile = TRUE
    /\ open = FALSE
    /\ pendMobile = None
    /\ pendOpen = None
    /\ prevIsMobileRef = TRUE
    /\ reported = None
    /\ last = NoCall
    /\ hist = [firstMobile |-> FALSE, userOpened |-> FALSE, desktopSeen |-> FALSE]
    /\ hookResult = [threw |-> "", value |-> None]

\* (variant) the cookie is applied at every width
CheckMobileAnyWidth(w) ==
    LET mobile == w < MOBILE_BREAKPOINT
    IN /\ pendMobile' = Some(mobile)
       /\ pendOpen' = Some(OpenFromCookie(cookie, defaultOpen))
       /\ last' = [NoCall EXCEPT !.op = "checkMobile", !.mobile = mobile,
                                 !.seen = ExposedOpen]
       /\ hist' = [hist EXCEPT !.firstMobile = IF mounted THEN @ ELSE mobile,
                                !.desktopSeen = @ \/ ~mobile]

\* checkMobile(): the updates it queues, given the width it reads
CheckMobileQueues(w) ==
    LET mobile == w < MOBILE_BREAKPOINT
    IN /\ pendMobile' = Some(mobile)
       /\ pendOpen' = IF ~mobile THEN Some(OpenFromCookie(cookie, defaultOpen))
                      ELSE pendOpen
       /\ last' = [NoCall EXCEPT !.op = "checkMobile", !.mobile = mobile,
                                 !.seen = ExposedOpen]
       /\ hist' = [hist EXCEPT !.firstMobile = IF mounted THEN @ ELSE mobile,
                                !.desktopSeen = @ \/ ~mobile]

\* The mount effects: checkMobile() and the listeners; the auto-collapse
\* effect's first run sees isMobile = prevIsMobileRef.current = true.
Mount ==
    /\ ~mounted
    /\ mounted' = TRUE
    /\ CheckMobileQueues(width)
    /\ UNCHANGED <<width, cookie, defaultOpen, openProp, hasOnOpenChange, isMobile,
                   open, prevIsMobileRef, reported, hookResult>>
    /\ SidebarFrame

\* A resize event: the window has a new width and checkMobile runs.
Resize(w) ==
    /\ mounted
    /\ width' = w
    /\ CheckMobileQueues(w)
    /\ UNCHANGED <<cookie, defaultOpen, openProp, hasOnOpenChange, mounted, isMobile,
                   open, prevIsMobileRef, reported, hookResult>>
    /\ SidebarFrame

\* setOpen(value): the body of the callback of the last render
SetOpenCall(op, arg) ==
    LET openState == ResolveOpen(arg, open)
    IN /\ IF hasOnOpenChange
          THEN reported' = Some(openState) /\ UNCHANGED pendOpen
          ELSE pendOpen' = Some(openState) /\ UNCHANGED reported
       /\ cookie' = CookieWrite(cookie, openState)
       /\ last' = [NoCall EXCEPT !.op = op, !.arg = arg, !.seen = ExposedOpen,
                                 !.resolved = openState, !.prevented = op = "keydown"]
       /\ hist' = [hist EXCEPT !.userOpened = @ \/ openState]
       /\ UNCHANGED <<width, defaultOpen, openProp, hasOnOpenChange, mounted, isMobile,
                      open, pendMobile, prevIsMobileRef, hookResult>>

\* A consumer calls the context's setOpen with a literal or an updater.
SetOpen(arg) ==
    /\ mounted
    /\ SetOpenCall("setOpen", arg)
    /\ SidebarFrame

\* useSidebar().toggleSidebar, the onClick of SidebarTrigger
ToggleSidebar ==
    /\ mounted
    /\ SetOpenCall("toggleSidebar", "not")
    /\ SidebarFrame

\* SidebarRail's onClick: setOpen(!open) with the exposed open
RailClick ==
    /\ mounted
    /\ SetOpenCall("rail", ToStr(~ExposedOpen))
    /\ SidebarFrame

\* (variant) a link click closes the sidebar at every width
LinkClosesAlways(mobile) == TRUE

\* handleLinkClick's test: if (isMobile)
LinkCloses(mobile) == mobile

\* AppSidebar's handleLinkClick, the onClick of every menu item's link and of
\* the site-name link: setOpen(false) when the context's isMobile is true.
LinkClick ==
    /\ mounted
    /\ IF LinkCloses(isMobile)
       THEN SetOpenCall("link", "false")
       ELSE /\ last' = [NoCall EXCEPT !.op = "link", !.seen = ExposedOpen]
            /\ UNCHANGED <<width, cookie, defaultOpen, openProp, hasOnOpenChange,
                           mounted, isMobile, open, pendMobile, pendOpen,
                           prevIsMobileRef, reported, hist, hookResult>>
    /\ SidebarFrame

\* handleKeyDown: meta or ctrl with "b" prevents the default and toggles.
KeyDown(meta, ctrl, key) ==
    /\ mounted
    /\ IF (meta \/ ctrl) /\ key = SIDEBAR_KEYBOARD_SHORTCUT
       THEN SetOpenCall("keydown", "not")
       ELSE /\ last' = [NoCall EXCEPT !.op = "keydown", !.seen = ExposedOpen]
            /\ UNCHANGED <<width, cookie, defaultOpen, openProp, hasOnOpenChange,
                           mounted, isMobile, open, pendMobile, pendOpen,
                           prevIsMobileRef, reported, hist, hookResult>>
    /\ SidebarFrame

\* (variant) closes whenever mobile and open
AutoCollapseWheneverMobile(nowMobile, prevMobile, nowOpen) == nowMobile /\ nowOpen

\* The auto-collapse effect's test: wasDesktopNowMobile && open
AutoCollapse(nowMobile, prevMobile, nowOpen) ==
    LET wasDesktopNowMobile == nowMobile /\ ~prevMobile
    IN wasDesktopNowMobile /\ nowOpen

\* The re-render React schedules after queued updates, with the effects
\* whose dependencies changed: the auto-collapse effect ([isMobile, open]).
Render ==
    /\ mounted
    /\ pendMobile # None \/ pendOpen # None
    /\ LET newMobile == OrElse(pendMobile, isMobile)
           newOpen == OrElse(pendOpen, open)
           effectRuns == newMobile # isMobile \/ newOpen # open
       IN /\ isMobile' = newMobile
          /\ open' = newOpen
          /\ pendMobile' = None
          /\ prevIsMobileRef' = IF effectRuns THEN newMobile ELSE prevIsMobileRef
          /\ pendOpen' = IF effectRuns /\ AutoCollapse(newMobile, prevIsMobileRef, newOpen)
                         THEN Some(FALSE) ELSE None
          /\ last' = [NoCall EXCEPT !.op = "render", !.seen = ExposedOpen,
                                    !.mobile = isMobile]
    /\ UNCHANGED <<width, cookie, defaultOpen, openProp, hasOnOpenChange, mounted,
                   reported, hist, hookResult>>
    /\ SidebarFrame

\* The parent of a provider that is given `open` renders it with a new value.
ParentSetsOpen(b) ==
    /\ mounted
    /\ openProp # None
    /\ openProp' = Some(b)
    /\ last' = [NoCall EXCEPT !.op = "parent", !.seen = ExposedOpen]
    /\ UNCHANGED <<width, cookie, defaultOpen, hasOnOpenChange, mounted, isMobile, open,
                   pendMobile, pendOpen, prevIsMobileRef, reported, hist,
                   hookResult>>
    /\ SidebarFrame

\* A component calls useSidebar(), below the provider or outside of it.
UseSidebar(inside) ==
    /\ mounted
    /\ hookResult' = useSidebar(IF inside THEN Some(ContextValue) ELSE None)
    /\ last' = [NoCall EXCEPT !.op = "useSidebar", !.seen = ExposedOpen,
                              !.inside = inside]
    /\ UNCHANGED <<width, cookie, defaultOpen, openProp, hasOnOpenChange, mounted,
                   isMobile, open, pendMobile, pendOpen, prevIsMobileRef, reported,
                   hist>>
    /\ SidebarFrame

\* What the consumers inside Layout render from the values useSidebar()
\* handed them (`ctx`): a list of elements each.
Trigger == "SidebarTrigger"

\* The site names AppSidebar is given (Layout passes siteName || '').
SiteNames == {"", "Site"}

\* MobileMenuFab: if (!isMobile) return null, else the floating trigger
MobileMenuFab(ctx) == IF ~ctx.isMobile THEN <<>> ELSE <<Trigger>>

\* (variant) a page header with a trigger at every desktop width
PageHeaderTriggerOnDesktop(ctx) == IF ~ctx.isMobile THEN <<Trigger>> ELSE <<>>

\* PageHeader: {!isMobile && !open && <SidebarTrigger />}
PageHeaderTrigger(ctx) == IF ~ctx.isMobile /\ ~ctx.open THEN <<Trigger>> ELSE <<>>

\* (variant) a sidebar header with a trigger at every desktop width
AppSidebarHeaderOnDesktop(ctx, siteName) ==
    (IF ~ctx.isMobile THEN <<Trigger>> ELSE <<>>) \o <<siteName>>

\* AppSidebar's header: {open && !isMobile && <SidebarTrigger />} and the
\* link with the site name
AppSidebarHeader(ctx, siteName) ==
    (IF ctx.open /\ ~ctx.isMobile THEN <<Trigger>> ELSE <<>>) \o <<siteName>>

\* Layout's render below the provider: AppSidebar, MobileMenuFab, PageHeader
LayoutView(ctx, siteName) ==
    [sidebarHeader |-> AppSidebarHeader(ctx, siteName),
     fab |-> MobileMenuFab(ctx),
     pageHeader |-> PageHeaderTrigger(ctx)]

\* The Sidebar panel.  Its props, the width constants, and the class names
\* that move or size it.
Collapsibles == {"offcanvas", "icon", "none"}
Sides == {"left", "right"}
SIDEBAR_WIDTH == "16rem"
SIDEBAR_WIDTH_ICON == "3rem"

\* (variant) a panel without the class that shows it below the md
\* breakpoint when expanded
SidebarClassesNoMobileShow(ctx, collapsible, side) ==
    (IF collapsible = "offcanvas" /\ ~ctx.open
     THEN {IF side = "left" THEN "-translate-x-full" ELSE "translate-x-full"}
     ELSE {})
    \cup (IF collapsible = "offcanvas" /\ side = "left"
          THEN {"max-md:-translate-x-full"} ELSE {})
    \cup (IF collapsible = "offcanvas" /\ side = "right"
          THEN {"max-md:translate-x-full"} ELSE {})
    \cup {IF collapsible = "icon" /\ ~ctx.open THEN "w-16" ELSE "w-64"}
    \cup (IF collapsible # "icon" /\ ctx.open THEN {"w-64"} ELSE {})

\* The conditional class names of the <aside>, from the open value that
\* useSidebar() returned
SidebarClasses(ctx, collapsible, side) ==
    (IF collapsible = "offcanvas" /\ ~ctx.open
     THEN {IF side = "left" THEN "-translate-x-full" ELSE "translate-x-full"}
     ELSE {})
    \cup (IF collapsible = "offcanvas" /\ side = "left"
          THEN {"max-md:-translate-x-full", "max-md:data-[state=expanded]:translate-x-0"}
          ELSE {})
    \cup (IF collapsible = "offcanvas" /\ side = "right"
          THEN {"max-md:translate-x-full", "max-md:data-[state=expanded]:translate-x-0"}
          ELSE {})
    \cup {IF collapsible = "icon" /\ ~ctx.open THEN "w-16" ELSE "w-64"}
    \cup (IF collapsible # "icon" /\ ctx.open THEN {"w-64"} ELSE {})

\* style.width: collapsible === "icon" && !open ? "3rem" : SIDEBAR_WIDTH
SidebarStyleWidth(ctx, collapsible) ==
    IF collapsible = "icon" /\ ~ctx.open THEN SIDEBAR_WIDTH_ICON ELSE SIDEBAR_WIDTH

\* The horizontal translation the class names give an element with the
\* attribute data-state = dataState in a viewport w wide: below the md
\* breakpoint the max-md rules come after the plain ones, and the rule
\* with the data-state selector is the more specific of them.
TranslateX(classes, dataState, w) ==
    LET maxMd == w < MOBILE_BREAKPOINT
    IN IF maxMd /\ dataState = "expanded"
          /\ "max-md:data-[state=expanded]:translate-x-0" \in classes THEN "0"
       ELSE IF maxMd /\ "max-md:-translate-x-full" \in classes THEN "-100%"
       ELSE IF maxMd /\ "max-md:translate-x-full" \in classes THEN "100%"
       ELSE IF "-translate-x-full" \in classes THEN "-100%"
       ELSE IF "translate-x-full" \in classes THEN "100%"
       ELSE "0"

\* The <aside> that Sidebar renders, as the browser presents it in a
\* viewport w wide: the inline width and the translation.
Sidebar(ctx, collapsible, side, w) ==
    [dataState |-> ctx.state,
     width |-> SidebarStyleWidth(ctx, collapsible),
     translate |-> TranslateX(SidebarClasses(ctx, collapsible, side), ctx.state, w)]

SidebarNext ==
    \/ Mount
    \/ \E w \in Widths : Resize(w)
    \/ \E arg \in SetOpenArgs : SetOpen(arg)
    \/ ToggleSidebar
    \/ RailClick
    \/ LinkClick
    \/ \E meta \in BOOLEAN, ctrl \in BOOLEAN, key \in Keys : KeyDown(meta, ctrl, key)
    \/ Render
    \/ \E b \in BOOLEAN : ParentSetsOpen(b)
    \/ \E inside \in BOOLEAN : UseSidebar(inside)

\* ------------------------------------------------------------------------
\* ErrorBoundary

\* Bounds: the errors a subtree can throw, the component stacks React
\* reports, the subtrees a parent can pass, and the number of remounts.
Errors == {"TypeError", "RangeError"}
ComponentStacks == {"at Page", "at Widget"}
Subtrees == {"page", "list", "detail"}
MaxRemounts == 3

Fallback == "fallback"

\* constructor: this.state = { hasError: false, error: null, errorInfo: null }
EbInitialState == [hasError |-> FALSE, error |-> None, errorInfo |-> None]

\* (variant) the fallback is shown only once the error details are stored
EbRenderWhenDetailed(state, children) ==
    IF state.error # None THEN Fallback ELSE children

\* render(): the fallback screen when hasError, else the children
EbRender(state, children) == IF state.hasError THEN Fallback ELSE children

\* static getDerivedStateFromError(error): the partial state { hasError: true }
getDerivedStateFromError(state, error) == [state EXCEPT !.hasError = TRUE]

BoundaryInit ==
    /\ ebInstance = 0
    /\ ebState = EbInitialState
    /\ ebPending = None
    /\ ebChildren \in Subtrees
    /\ ebOutput = ebChildren
    /\ ebLogged = 0
    /\ ebLast = "mount"

\* A descendant throws while rendering: React applies getDerivedStateFromError,
\* renders again, commits, and calls componentDidCatch, which queues
\* setState({error, errorInfo}) and reports to console.error.
EbChildThrows(error, info) ==
    /\ ebOutput # Fallback
    /\ ebState' = getDerivedStateFromError(ebState, error)
    /\ ebOutput' = EbRender(ebState', ebChildren)
    /\ ebPending' = Some([error |-> Some(error), errorInfo |-> Some(info)])
    /\ ebLogged' = ebLogged + 1
    /\ ebLast' = "catch"
    /\ UNCHANGED <<ebInstance, ebChildren>>
    /\ BoundaryFrame

\* The re-render for the setState of componentDidCatch.
EbApplySetState ==
    /\ ebPending # None
    /\ ebState' = [ebState EXCEPT !.error = ebPending[1].error,
                                  !.errorInfo = ebPending[1].errorInfo]
    /\ ebPending' = None
    /\ ebOutput' = EbRender(ebState', ebChildren)
    /\ ebLast' = "setState"
    /\ UNCHANGED <<ebInstance, ebChildren, ebLogged>>
    /\ BoundaryFrame

\* The parent renders the boundary again, with the same or other children.
EbParentRenders(children) ==
    /\ ebChildren' = children
    /\ ebOutput' = EbRender(ebState, children)
    /\ ebLast' = "parentRender"
    /\ UNCHANGED <<ebInstance, ebState, ebPending, ebLogged>>
    /\ BoundaryFrame

\* A new instance: the document was loaded again, or the parent remounted.
EbNewInstance(children, how) ==
    /\ ebInstance < MaxRemounts
    /\ ebInstance' = ebInstance + 1
    /\ ebState' = EbInitialState
    /\ ebPending' = None
    /\ ebChildren' = children
    /\ ebOutput' = EbRender(EbInitialState, children)
    /\ ebLogged' = 0
    /\ ebLast' = how
    /\ BoundaryFrame

\* "Refresh Page": onClick calls window.location.reload() and nothing else.
EbClickReload(children) ==
    /\ ebOutput = Fallback
    /\ EbNewInstance(children, "reload")

\* "Go to Home": a plain <a href="/">, which loads the document at "/".
EbClickHome(children) ==
    /\ ebOutput = Fallback
    /\ EbNewInstance(children, "home")

\* The parent unmounts the boundary and mounts a new one.
EbRemount(children) == EbNewInstance(children, "remount")

BoundaryNext ==
    \/ \E e \in Errors, i \in ComponentStacks : EbChildThrows(e, i)
    \/ EbApplySetState
    \/ \E c \in Subtrees : EbParentRenders(c)
    \/ \E c \in Subtrees : EbClickReload(c)
    \/ \E c \in Subtrees : EbClickHome(c)
    \/ \E c \in Subtrees : EbRemount(c)

\* ------------------------------------------------------------------------
\* AppSidebar: isActive

\* Paths are sequences of characters; the model draws them from a small
\* alphabet, up to MaxPathLen characters, starting with "/".
PathChars == {"/", "a", "b"}
MaxPathLen == 4
PathStrings ==
    UNION {{p \in [1..n -> PathChars] : p[1] = "/"} : n \in 1..MaxPathLen}

Root == <<"/">>

\* String.prototype.startsWith
StartsWith(str, prefix) ==
    Len(str) >= Len(prefix) /\ SubSeq(str, 1, Len(prefix)) = prefix

\* (variant) only the item's own path counts
isActiveExact(path, current) == current = path

\* isActive(path): exact match for "/", startsWith for the rest
isActive(path, current) ==
    IF path = Root THEN current = Root ELSE StartsWith(current, path)

NavInit ==
    /\ itemPath \in PathStrings
    /\ locPathname \in PathStrings
    /\ itemActive = None

\* AppSidebar renders the item: isActive={isActive(item.path)}
NavRender ==
    /\ itemActive = None
    /\ itemActive' = Some(isActive(itemPath, locPathname))
    /\ UNCHANGED <<itemPath, locPathname>>
    /\ NavFrame

\* The router moves to another path and AppSidebar renders again.
NavLocationChanges(current) ==
    /\ itemActive # None
    /\ current # locPathname
    /\ locPathname' = current
    /\ itemActive' = Some(isActive(itemPath, current))
    /\ UNCHANGED itemPath
    /\ NavFrame

NavNext ==
    \/ NavRender
    \/ \E p \in PathStrings : NavLocationChanges(p)

\* ------------------------------------------------------------------------
\* Layout: scroll position save and restore

\* Bounds.  Heights and offsets are in whole units: the viewport
\* is ViewportHeight units high and a page up to MaxScrollHeight.  At most
\* MaxTimers timers of the restore effect (polls and grace timers) are
\* pending at a time: the router does not move while that many are.
Paths == {"/a", "/b"}
ViewportHeight == 1
MaxScrollHeight == 3
MaxTimers == 2

\* const maxAttempts = 10
maxAttempts == 10

\* document.body.scrollHeight: from an empty body, lower than the viewport,
\* to MaxScrollHeight
ScrollHeights == 0..MaxScrollHeight

Min(a, b) == IF a < b THEN a ELSE b
Max(a, b) == IF a > b THEN a ELSE b

\* The largest offset the window can be scrolled to on a page of height h.
MaxScrollFor(h) == Max(0, h - ViewportHeight)

\* window.scrollTo({top}): the browser keeps the offset within the page.
ScrollTo(top, h) == Max(0, Min(top, MaxScrollFor(h)))

\* (variant) one attempt too many
ShouldJumpLate(hasContent, attempts) == hasContent \/ attempts > maxAttempts

\* hasContent || attempts >= maxAttempts
ShouldJump(hasContent, attempts) == hasContent \/ attempts >= maxAttempts

\* Math.min(savedPosition, document.body.scrollHeight - window.innerHeight)
ActualPosition(savedPosition, h) == Min(savedPosition, h - ViewportHeight)

OneOf(p) == SetToBag({p})

\* The timers of the restore effect that are pending.
PendingTimers(ps, gs) ==
    BagCardinality(ps) + gs.earlier + (IF gs.latest THEN 1 ELSE 0)

\* A new arrival makes every pending poll and grace timer an earlier one.
EarlierPolls(ps) ==
    LET was(t) == [t EXCEPT !.latest = TRUE]
        T == {[q EXCEPT !.latest = FALSE] : q \in BagToSet(ps)}
    IN [t \in T |-> CopiesIn(t, ps) + CopiesIn(was(t), ps)]

EarlierGraces(gs) ==
    [latest |-> FALSE, earlier |-> gs.earlier + (IF gs.latest THEN 1 ELSE 0)]

LayoutInit ==
    /\ lyMounted = FALSE
    /\ pathname \in Paths
    /\ previousPathname = pathname
    /\ scrollPositions = [p \in Paths |-> None]
    /\ isRestoringRef = FALSE
    /\ scrollY = 0
    /\ scrollHeight \in ScrollHeights
    /\ polls = EmptyBag
    /\ graces = [latest |-> FALSE, earlier |-> 0]
    /\ scrollTimeout = None
    /\ scrollEvent = FALSE
    /\ arrivalKind = "none"
    /\ userScrolled = FALSE

\* The restore effect, run for path `to` (its page h high) with the map
\* `positions` and the window at offset y: either start a poll, or jump to
\* the top and set the grace timer.
RestoreEffect(to, positions, y, h) ==
    LET savedPosition == positions[to]
        polling == savedPosition # None /\ savedPosition[1] > 0
    IN /\ isRestoringRef' = TRUE
       /\ IF polling
          THEN /\ polls' = EarlierPolls(polls)
                             (+) OneOf([saved |-> savedPosition[1], attempts |-> 0,
                                        latest |-> TRUE])
               /\ graces' = EarlierGraces(graces)
               /\ scrollY' = y
               /\ scrollEvent' = (scrollEvent \/ y # scrollY)
          ELSE /\ polls' = EarlierPolls(polls)
               /\ graces' = [EarlierGraces(graces) EXCEPT !.latest = TRUE]
               /\ scrollY' = ScrollTo(0, h)
               /\ scrollEvent' = (scrollEvent \/ scrollY' # scrollY)
       /\ arrivalKind' = IF polling THEN "poll" ELSE "top"
       /\ userScrolled' = FALSE

\* A save effect that stores the offset under the path it arrives at.
SaveUnderIncoming(positions, prev, to, y) ==
    IF prev # to THEN [positions EXCEPT ![to] = Some(y)] ELSE positions

\* The save effect, run with previousPathname.current = prev and
\* location.pathname = to while the window is at offset y: the map it leaves.
SaveEffect(positions, prev, to, y) ==
    IF prev # to THEN [positions EXCEPT ![prev] = Some(y)] ELSE positions

\* The effects of the first render: the save effect finds the path it was
\* initialised with, the scroll listener is added, and the restore effect
\* runs for the initial path.
LayoutMount ==
    /\ ~lyMounted
    /\ lyMounted' = TRUE
    /\ scrollPositions' = SaveEffect(scrollPositions, previousPathname, pathname, scrollY)
    /\ previousPathname' = pathname
    /\ RestoreEffect(pathname, scrollPositions', scrollY, scrollHeight)
    /\ UNCHANGED <<pathname, scrollHeight, scrollTimeout>>
    /\ LayoutFrame

\* (variant) a scroll effect whose cleanup leaves the timer running
ScrollCleanupKeeps(timer) == timer

\* The scroll effect's cleanup: clearTimeout(scrollTimeout)
ScrollCleanup(timer) == None

\* The router moves to path `to`, whose page is h high when it is committed.
\* The browser keeps the offset within the new page; then the effects run:
\* the scroll effect's cleanup (clearTimeout), the save effect, the new
\* scroll listener, and the restore effect.
Navigate(to, h) ==
    /\ lyMounted
    /\ to # pathname
    /\ PendingTimers(polls, graces) < MaxTimers
    /\ LET y == Min(scrollY, MaxScrollFor(h))
           saved == SaveEffect(scrollPositions, previousPathname, to, y)
       IN /\ pathname' = to
          /\ scrollHeight' = h
          /\ scrollTimeout' = ScrollCleanup(scrollTimeout)
          /\ scrollPositions' = saved
          /\ previousPathname' = to
          /\ RestoreEffect(to, saved, y, h)
    /\ UNCHANGED lyMounted
    /\ LayoutFrame

\* The page's content is rendered or removed: the document's height changes.
ContentChanges(h) ==
    /\ lyMounted
    /\ h # scrollHeight
    /\ scrollHeight' = h
    /\ scrollY' = Min(scrollY, MaxScrollFor(h))
    /\ scrollEvent' = (scrollEvent \/ scrollY' # scrollY)
    /\ UNCHANGED <<lyMounted, pathname, previousPathname, scrollPositions,
                   isRestoringRef, polls, graces, scrollTimeout, arrivalKind,
                   userScrolled>>
    /\ LayoutFrame

\* The user scrolls the window to offset y.
UserScroll(y) ==
    /\ lyMounted
    /\ y # scrollY
    /\ y <= MaxScrollFor(scrollHeight)
    /\ scrollY' = y
    /\ scrollEvent' = TRUE
    /\ userScrolled' = TRUE
    /\ UNCHANGED <<lyMounted, pathname, previousPathname, scrollPositions,
                   isRestoringRef, scrollHeight, polls, graces, scrollTimeout,
                   arrivalKind>>
    /\ LayoutFrame

\* handleScroll: ignored while restoring, else the debounce timer is set anew.
HandleScroll ==
    /\ scrollEvent
    /\ scrollEvent' = FALSE
    /\ scrollTimeout' = IF isRestoringRef THEN scrollTimeout ELSE Some(pathname)
    /\ UNCHANGED <<lyMounted, pathname, previousPathname, scrollPositions,
                   isRestoringRef, scrollY, scrollHeight, polls, graces, arrivalKind,
                   userScrolled>>
    /\ LayoutFrame

\* (variant) a map that keeps the last written entry only
SetPrunes(positions, path, y) == [p \in Paths |-> IF p = path THEN Some(y) ELSE None]

\* The timer's callback: scrollPositions.current.set(location.pathname, window.scrollY)
DebounceSet(positions, path, y) == [positions EXCEPT ![path] = Some(y)]

\* The debounce timer fires.
DebounceFires ==
    /\ scrollTimeout # None
    /\ scrollPositions' = DebounceSet(scrollPositions, scrollTimeout[1], scrollY)
    /\ scrollTimeout' = None
    /\ UNCHANGED <<lyMounted, pathname, previousPathname, isRestoringRef, scrollY,
                   scrollHeight, polls, graces, scrollEvent, arrivalKind, userScrolled>>
    /\ LayoutFrame

\* A poll's animation frame and the timer it sets (the frame callback does
\* nothing else) run tryRestore: jump and set the grace timer, or ask for
\* another frame.
TryRestore(p) ==
    /\ BagIn(p, polls)
    /\ LET attempts == p.attempts + 1
           hasContent == scrollHeight > ViewportHeight
           actualPosition == ActualPosition(p.saved, scrollHeight)
       IN IF ShouldJump(hasContent, attempts)
          THEN /\ scrollY' = ScrollTo(actualPosition, scrollHeight)
               /\ scrollEvent' = (scrollEvent \/ scrollY' # scrollY)
               /\ polls' = polls (-) OneOf(p)
               /\ graces' = IF p.latest
                            THEN [graces EXCEPT !.latest = TRUE]
                            ELSE [graces EXCEPT !.earlier = @ + 1]
          ELSE /\ polls' = (polls (-) OneOf(p)) (+) OneOf([p EXCEPT !.attempts = attempts])
               /\ UNCHANGED <<scrollY, scrollEvent, graces>>
    /\ UNCHANGED <<lyMounted, pathname, previousPathname, scrollPositions,
                   isRestoringRef, scrollHeight, scrollTimeout, arrivalKind,
                   userScrolled>>
    /\ LayoutFrame

\* A grace timer's callback that leaves the flag as it finds it.
FlagKept(flag) == flag

\* isRestoringRef.current = false
FlagAfterGrace(flag) == FALSE

\* A grace timer fires.
GraceFires(ofLatest) ==
    /\ IF ofLatest THEN graces.latest ELSE graces.earlier > 0
    /\ graces' = IF ofLatest
                 THEN [graces EXCEPT !.latest = FALSE]
                 ELSE [graces EXCEPT !.earlier = @ - 1]
    /\ isRestoringRef' = FlagAfterGrace(isRestoringRef)
    /\ UNCHANGED <<lyMounted, pathname, previousPathname, scrollPositions, scrollY,
                   scrollHeight, polls, scrollTimeout, scrollEvent, arrivalKind,
                   userScrolled>>
    /\ LayoutFrame

LayoutNext ==
    \/ LayoutMount
    \/ \E to \in Paths, h \in ScrollHeights : Navigate(to, h)
    \/ \E h \in ScrollHeights : ContentChanges(h)
    \/ \E y \in 0..MaxScrollFor(MaxScrollHeight) : UserScroll(y)
    \/ HandleScroll
    \/ DebounceFires
    \/ \E p \in BagToSet(polls) : TryRestore(p)
    \/ \E ofLatest \in BOOLEAN : GraceFires(ofLatest)

\* ------------------------------------------------------------------------
\* Layout: breadcrumbs

\* Paths are all strings of at most MaxCrumbLen characters over CrumbChars
\* that start with "/", and a few longer ones.
CrumbChars == {"/", "a", "-"}
MaxCrumbLen == 4

Str_posts == <<"p", "o", "s", "t", "s">>
Str_my_first_post == <<"m", "y", "-", "f", "i", "r", "s", "t", "-", "p", "o", "s", "t">>
Str_constructor == <<"c", "o", "n", "s", "t", "r", "u", "c", "t", "o", "r">>
Str_Home == <<"H", "o", "m", "e">>
Str_Alpha == <<"A", "l", "p", "h", "a">>

ExamplePath == <<"/">> \o Str_posts \o <<"/">> \o Str_my_first_post

BcPaths ==
    {q \in UNION {[1..n -> CrumbChars] : n \in 1..MaxCrumbLen} : q[1] = "/"}
        \cup {ExamplePath, <<"/">> \o Str_constructor, <<"/", "a", "/">> \o Str_constructor}

\* String.prototype.split(sep) for a one-character separator
RECURSIVE Split(_, _)
Split(str, sep) ==
    IF str = <<>> THEN << <<>> >>
    ELSE LET rest == Split(Tail(str), sep)
         IN IF Head(str) = sep
            THEN << <<>> >> \o rest
            ELSE << <<Head(str)>> \o Head(rest) >> \o Tail(rest)

\* Array.prototype.join(sep)
RECURSIVE Join(_, _)
Join(parts, sep) ==
    IF parts = <<>> THEN <<>>
    ELSE IF Len(parts) = 1 THEN parts[1]
    ELSE parts[1] \o sep \o Join(Tail(parts), sep)

\* .filter((x) => x): the non-empty strings
NonEmpty(parts) == SelectSeq(parts, LAMBDA x : x # <<>>)

\* String.prototype.toUpperCase() of one character
LowerCase == {"a", "c", "f", "i", "m", "n", "o", "p", "r", "s", "t", "u", "y"}
ToUpperCase(c) ==
    IF c \notin LowerCase THEN c
    ELSE [a |-> "A", c |-> "C", f |-> "F", i |-> "I", m |-> "M", n |-> "N",
          o |-> "O", p |-> "P", r |-> "R", s |-> "S", t |-> "T", u |-> "U",
          y |-> "Y"][c]

\* word.charAt(0).toUpperCase() + word.slice(1)
Capitalize(word) ==
    IF word = <<>> THEN <<>> ELSE <<ToUpperCase(word[1])>> \o Tail(word)

\* segment.split('-').map(capitalize).join(' ')
FormatLabel(segment) ==
    LET words == Split(segment, "-")
    IN Join([i \in 1..Len(words) |-> Capitalize(words[i])], <<" ">>)

\* The values of the routeNames prop: no entries (the default {}), an entry
\* for the segment "a", an entry for "a" that is the empty string, and an
\* entry for the segment "a-a".
RouteNameProps ==
    { {},
      {[key |-> <<"a">>, label |-> Str_Alpha]},
      {[key |-> <<"a">>, label |-> <<>>]},
      {[key |-> <<"a", "-", "a">>, label |-> Str_Alpha]} }

\* Property names every object literal inherits from Object.prototype, and
\* what reading one gives: a function, not a string.
ObjectPrototypeNames == {Str_constructor}
InheritedValue == <<"[inherited from Object.prototype]">>

\* routeNames[segment]: <<>> for undefined, else <<value>>
RouteNamesGet(names, segment) ==
    IF \E e \in names : e.key = segment
    THEN Some((CHOOSE e \in names : e.key = segment).label)
    ELSE IF segment \in ObjectPrototypeNames THEN Some(InheritedValue)
    ELSE None

\* JavaScript truthiness of an optional string: not null/undefined, not ""
Truthy(v) == v # None /\ v[1] # <<>>

\* The resolvers the model passes as getBreadcrumbLabel: none; one that
\* knows a title for the paths /a/<id>; one that returns "" for every path.
Resolvers == {"absent", "titles", "blank"}

\* getBreadcrumbLabel(location.pathname, params)
ResolverResult(resolver, path) ==
    LET segs == NonEmpty(Split(path, "/"))
    IN IF resolver = "titles"
       THEN IF Len(segs) = 2 /\ segs[1] = <<"a">>
            THEN Some(<<"#">> \o segs[2]) ELSE None
       ELSE Some(<<>>)

\* The label of one segment: the if / else if / else of getBreadcrumbs
LabelFor(resolver, isLast, dynamic, names, segment) ==
    IF resolver # "absent" /\ isLast /\ Truthy(dynamic) THEN dynamic[1]
    ELSE IF Truthy(RouteNamesGet(names, segment)) THEN RouteNamesGet(names, segment)[1]
    ELSE FormatLabel(segment)

\* currentPath after the first i segments: each appended as `/${segment}`
RECURSIVE CurrentPath(_, _)
CurrentPath(pathnames, i) ==
    IF i = 0 THEN <<>> ELSE CurrentPath(pathnames, i - 1) \o <<"/">> \o pathnames[i]

\* (variant) hrefs without the leading segments
SegmentHrefLast(pathnames, i) == <<"/">> \o pathnames[i]

SegmentHref(pathnames, i) == CurrentPath(pathnames, i)

\* getBreadcrumbs()
getBreadcrumbs(path, names, resolver, dynamic) ==
    LET pathnames == NonEmpty(Split(path, "/"))
    IN << [label |-> Str_Home, href |-> <<"/">>, isLast |-> FALSE] >>
       \o [i \in 1..Len(pathnames) |->
             [label |-> LabelFor(resolver, i = Len(pathnames), dynamic, names,
                                 pathnames[i]),
              href |-> SegmentHref(pathnames, i),
              isLast |-> (i = Len(pathnames))]]

\* PageHeader: crumb.isLast ? <BreadcrumbPage> : <BreadcrumbLink><Link>
PageHeader(crumbs) ==
    [i \in 1..Len(crumbs) |-> IF crumbs[i].isLast THEN "page" ELSE "link"]

CrumbInit ==
    /\ bcPathname \in BcPaths
    /\ routeNames \in RouteNameProps
    /\ getBreadcrumbLabel \in Resolvers
    /\ dynamicLabel = None
    /\ bcEffectPending = FALSE
    /\ breadcrumbs = None
    /\ header = <<>>

\* A render of Layout: getBreadcrumbs() and PageHeader with its result.
RenderCrumbs(path, dynamic) ==
    LET crumbs == getBreadcrumbs(path, routeNames, getBreadcrumbLabel, dynamic)
    IN /\ breadcrumbs' = Some(crumbs)
       /\ header' = PageHeader(crumbs)

\* The first render; the label effect is then due.
CrumbMount ==
    /\ breadcrumbs = None
    /\ RenderCrumbs(bcPathname, dynamicLabel)
    /\ bcEffectPending' = TRUE
    /\ UNCHANGED <<bcPathname, routeNames, getBreadcrumbLabel, dynamicLabel>>
    /\ CrumbFrame

\* The router moves to another path: Layout renders with the label state it
\* has, and the label effect is due again.
CrumbNavigate(to) ==
    /\ breadcrumbs # None
    /\ to # bcPathname
    /\ bcPathname' = to
    /\ RenderCrumbs(to, dynamicLabel)
    /\ bcEffectPending' = TRUE
    /\ UNCHANGED <<routeNames, getBreadcrumbLabel, dynamicLabel>>
    /\ CrumbFrame

\* The label effect: setDynamicLabel(getBreadcrumbLabel(...)) or
\* setDynamicLabel(null), and the render that the new state causes.
CrumbLabelEffect ==
    /\ bcEffectPending
    /\ LET label == IF getBreadcrumbLabel # "absent"
                    THEN ResolverResult(getBreadcrumbLabel, bcPathname)
                    ELSE None
       IN /\ dynamicLabel' = label
          /\ IF label # dynamicLabel
             THEN RenderCrumbs(bcPathname, label)
             ELSE UNCHANGED <<breadcrumbs, header>>
    /\ bcEffectPending' = FALSE
    /\ UNCHANGED <<bcPathname, routeNames, getBreadcrumbLabel>>
    /\ CrumbFrame

CrumbNext ==
    \/ CrumbMount
    \/ \E to \in BcPaths : CrumbNavigate(to)
    \/ CrumbLabelEffect

\* ------------------------------------------------------------------------
\* Specifications.  Each component is checked on its own, the others at rest.

SidebarIdle ==
    /\ width = 1280 /\ cookie = <<>> /\ defaultOpen = TRUE /\ openProp = None
    /\ hasOnOpenChange = FALSE /\ mounted = FALSE /\ isMobile = TRUE /\ open = FALSE
    /\ pendMobile = None /\ pendOpen = None /\ prevIsMobileRef = TRUE
    /\ reported = None /\ last = NoCall
    /\ hist = [firstMobile |-> FALSE, userOpened |-> FALSE, desktopSeen |-> FALSE]
    /\ hookResult = [threw |-> "", value |-> None]

BoundaryIdle ==
    /\ ebInstance = 0 /\ ebState = EbInitialState /\ ebPending = None
    /\ ebChildren = "page" /\ ebOutput = "page" /\ ebLogged = 0 /\ ebLast = "mount"

NavIdle == itemPath = Root /\ locPathname = Root /\ itemActive = None

LayoutIdle ==
    /\ lyMounted = FALSE /\ pathname = "/a" /\ previousPathname = "/a"
    /\ scrollPositions = [p \in Paths |-> None] /\ isRestoringRef = FALSE
    /\ scrollY = 0 /\ scrollHeight = MaxScrollHeight /\ polls = EmptyBag
    /\ graces = [latest |-> FALSE, earlier |-> 0]
    /\ scrollTimeout = None /\ scrollEvent = FALSE /\ arrivalKind = "none"
    /\ userScrolled = FALSE

CrumbIdle ==
    /\ bcPathname = <<"/">> /\ routeNames = {} /\ getBreadcrumbLabel = "absent"
    /\ dynamicLabel = None /\ bcEffectPending = FALSE /\ breadcrumbs = None
    /\ header = <<>>

\* The whole library: every component in its initial state, any step of any.
Init == SidebarInit /\ BoundaryInit /\ NavInit /\ LayoutInit /\ CrumbInit

Next == SidebarNext \/ BoundaryNext \/ NavNext \/ LayoutNext \/ CrumbNext

Spec == Init /\ [][Next]_vars

SidebarStart == SidebarInit /\ BoundaryIdle /\ NavIdle /\ LayoutIdle /\ CrumbIdle
SidebarSpec == SidebarStart /\ [][SidebarNext]_vars

BoundaryStart == BoundaryInit /\ SidebarIdle /\ NavIdle /\ LayoutIdle /\ CrumbIdle
BoundarySpec == BoundaryStart /\ [][BoundaryNext]_vars

NavStart == NavInit /\ SidebarIdle /\ BoundaryIdle /\ LayoutIdle /\ CrumbIdle
NavSpec == NavStart /\ [][NavNext]_vars

LayoutStart == LayoutInit /\ SidebarIdle /\ BoundaryIdle /\ NavIdle /\ CrumbIdle
LayoutSpec == LayoutStart /\ [][LayoutNext]_vars

\* The browser runs every animation frame and timer that was requested: a
\* pending poll step and a pending grace timer are not postponed for ever.
LayoutFairness ==
    /\ WF_vars(\E p \in BagToSet(polls) : TryRestore(p))
    /\ WF_vars(GraceFires(TRUE))
    /\ WF_vars(GraceFires(FALSE))
LayoutFairSpec == LayoutStart /\ [][LayoutNext]_vars /\ LayoutFairness

CrumbStart == CrumbInit /\ SidebarIdle /\ BoundaryIdle /\ NavIdle /\ LayoutIdle
CrumbSpec == CrumbStart /\ [][CrumbNext]_vars

\* ------------------------------------------------------------------------
\* Properties of SidebarProvider

\* The last step was a call of setOpen (a keydown only when it matched, a
\* link click only when it closed the sidebar).
WasSetOpenCall ==
    /\ last.op \in SetOpenOps
    /\ last.op = "keydown" => last.prevented
    /\ last.op = "link" => last.arg = "false"

\* The sidebar_state cookie as the browser holds it: the fields after the
\* name of each row of that name (<<"true", "1">> is the value true=1).
CookieValues(jar) ==
    {SubSeq(jar[i], 2, Len(jar[i])) : i \in {j \in 1..Len(jar) : RowMatches(jar[j])}}

\* The open state a call asked for: what it handed to onOpenChange, or
\* else the state the provider renders next.
RequestedOpen == IF hasOnOpenChange THEN reported ELSE Some(OrElse(pendOpen, open))

\* One step of the auto-collapse rule, for C1.
\*  - a render that commits desktop -> mobile with the sidebar open queues a close;
\*  - the render that follows it shows the sidebar closed;
\*  - a measurement below the breakpoint queues nothing for `open`;
\*  - a render that starts and ends mobile queues no close.
AutoCollapseStep ==
    /\ (~isMobile /\ isMobile' /\ ExposedOpen') => pendOpen' = Some(FALSE)
    /\ (last.op = "render" /\ pendOpen = Some(FALSE) /\ last'.op = "render")
          => ~ExposedOpen'
    /\ (last'.op = "checkMobile" /\ last'.mobile) => (pendOpen' = pendOpen /\ open' = open)
    /\ (last'.op = "render" /\ isMobile /\ isMobile') => pendOpen' = None

\* C1 as stated: going from non-mobile to mobile while the sidebar is open
\* makes the exposed open value false, and while already mobile nothing but
\* a setOpen call closes it - for every provider.
C1_AutoCollapseAnyProvider == [][AutoCollapseStep]_vars

\* C1 amended: the same for a provider that is given no `open` prop.
C1_AutoCollapseUncontrolled == [][openProp = None => AutoCollapseStep]_vars

C1_Witness ==
    /\ openProp = None /\ last.op = "render" /\ ~last.mobile
    /\ isMobile /\ open /\ pendOpen = Some(FALSE)

\* The open value consumers get from the render that follows.
LatestOpen == OrElse(openProp, OrElse(pendOpen, open))

\* The sidebar_state cookie is one row holding the string of the boolean
\* the last setOpen call resolved to.
CookieIsResolved ==
    /\ CookieValues(cookie) = {<<ToStr(last.resolved)>>}
    /\ Cardinality({i \in 1..Len(cookie) : cookie[i][1] = SIDEBAR_COOKIE_NAME}) = 1

\* C2 as stated: after each setOpen call the sidebar_state cookie holds the
\* string of the boolean the call resolved to, and that boolean is the
\* sidebar's latest open state - for every provider.
C2_CookieHoldsOpenState ==
    WasSetOpenCall => CookieIsResolved /\ LatestOpen = last.resolved

\* C2 amended: after each setOpen call the sidebar_state cookie holds exactly
\* the string of the boolean the call resolved to; that boolean is the open
\* state the call asked for, and it is the sidebar's latest open state in a
\* provider that is given neither `open` nor `onOpenChange`.
C2_CookieHoldsResolved ==
    WasSetOpenCall =>
        /\ CookieIsResolved
        /\ RequestedOpen = Some(last.resolved)
        /\ (openProp = None /\ ~hasOnOpenChange) => LatestOpen = last.resolved

C2_Witness ==
    /\ WasSetOpenCall /\ last.arg = "not" /\ last.resolved
    /\ openProp = None /\ ~hasOnOpenChange /\ LatestOpen
    /\ cookie = << <<"theme", "dark">>, <<SIDEBAR_COOKIE_NAME, "true">> >>

\* C6 as stated: setOpen(v) makes the open state v, and setOpen(f) makes it
\* f(p) for the open value p that consumers observed when it was called.
C6_UpdaterGetsObservedOpen ==
    WasSetOpenCall =>
        /\ last.resolved = ResolveOpen(last.arg, last.seen)
        /\ RequestedOpen = Some(ResolveOpen(last.arg, last.seen))

\* C7 as stated: a measurement at width >= 768 sets open to true when the
\* cookie value is exactly "true", to false when it is exactly "false", and
\* to defaultOpen for any other value or no cookie.
C7_OpenFromExactCookieValue ==
    (last.op = "checkMobile" /\ ~last.mobile) =>
        pendOpen = Some(IF CookieValues(cookie) = {<<"true">>} THEN TRUE
                        ELSE IF CookieValues(cookie) = {<<"false">>} THEN FALSE
                        ELSE defaultOpen)

\* The parts of C8 that do not depend on the props: the state before the
\* mount effects, and isMobile after a measurement.
MeasuredMobile ==
    /\ ~mounted => (isMobile /\ ~open)
    /\ mounted => OrElse(pendMobile, isMobile) = (width < MOBILE_BREAKPOINT)

\* C8 as stated: a provider starts mobile and closed, isMobile follows the
\* measured width, and after a mobile first measurement the sidebar stays
\* closed until the user opens it.
C8_ClosedUntilUserOpens ==
    /\ MeasuredMobile
    /\ (hist.firstMobile /\ ~hist.userOpened) => ~ExposedOpen

\* C8 amended: the same for a provider without an `open` prop, the sidebar
\* staying closed until the user opens it or a width >= 768 is measured.
C8_ClosedWhileMobileUncontrolled ==
    /\ MeasuredMobile
    /\ (openProp = None /\ hist.firstMobile /\ ~hist.userOpened /\ ~hist.desktopSeen)
          => (~ExposedOpen /\ pendOpen # Some(TRUE))

C8_Witness ==
    /\ openProp = None /\ hist.firstMobile /\ ~hist.userOpened /\ ~hist.desktopSeen
    /\ last.op = "render" /\ isMobile /\ ~open /\ defaultOpen
    /\ CookieValues(cookie) = {<<"true">>}

\* C9: useSidebar throws when no provider is above the caller, and below a
\* provider it returns open, state, isMobile, setOpen and toggleSidebar,
\* the first three being the values the context exposes.
C9_UseSidebarThrowsOutside ==
    last.op = "useSidebar" =>
        IF last.inside
        THEN /\ hookResult.threw = ""
             /\ hookResult.value # None
             /\ DOMAIN hookResult.value[1] =
                    {"open", "state", "isMobile", "setOpen", "toggleSidebar"}
             /\ hookResult.value[1].open = ExposedOpen
             /\ hookResult.value[1].state = ExposedState
             /\ hookResult.value[1].isMobile = isMobile
        ELSE hookResult.threw # "" /\ hookResult.value = None

C9_Witness == last.op = "useSidebar" /\ ~last.inside /\ hookResult.threw # ""

\* ------------------------------------------------------------------------
\* Properties of ErrorBoundary

\* C5: once an error was caught, hasError stays true and every render
\* returns the fallback, whatever the instance does afterwards, until a
\* new instance replaces it.
C5_ErrorIsSticky ==
    [][(ebState.hasError /\ ebInstance' = ebInstance)
          => (ebState'.hasError /\ ebOutput' = Fallback)]_vars

C5_Witness ==
    /\ ebState.hasError /\ ebLast = "parentRender" /\ ebPending # None
    /\ ebChildren = "detail" /\ ebOutput = Fallback

\* ------------------------------------------------------------------------
\* Properties of AppSidebar

\* pathname is path followed by "/" and further segments
IsSubPath(current, path) ==
    /\ Len(current) > Len(path) + 1
    /\ SubSeq(current, 1, Len(path)) = path
    /\ current[Len(path) + 1] = "/"

\* C10: the item "/" is active exactly when the current path is "/"; any
\* other item is active when the current path is its path or a sub-path.
C10_ActiveItem ==
    itemActive # None =>
        /\ itemPath = Root => (itemActive[1] <=> locPathname = Root)
        /\ (itemPath # Root
              /\ (locPathname = itemPath \/ IsSubPath(locPathname, itemPath)))
              => itemActive[1]

C10_Witness ==
    /\ itemPath = <<"/", "a">> /\ locPathname = <<"/", "a", "/", "b">>
    /\ itemActive = Some(TRUE)

\* ------------------------------------------------------------------------
\* Properties of the sidebar's link clicks and keyboard shortcut

\* The step changed nothing a setOpen call writes.
OpenAndCookieUnchanged ==
    /\ cookie' = cookie /\ open' = open /\ pendOpen' = pendOpen
    /\ reported' = reported /\ ExposedOpen' = ExposedOpen

\* The step called setOpen with a value that resolved to b.
CalledSetOpen(b) ==
    /\ last'.resolved = b
    /\ RequestedOpen' = Some(b)
    /\ CookieValues(cookie') = {<<ToStr(b)>>}

\* C11: a click on a navigation link of AppSidebar calls setOpen(false) when
\* isMobile is true, and when isMobile is false it leaves the open state and
\* the cookie as they were.
C11_LinkClickClosesOnMobile ==
    [][last'.op = "link" => IF isMobile THEN last'.arg = "false" /\ CalledSetOpen(FALSE)
                                      ELSE OpenAndCookieUnchanged]_vars

\* C11 witness: a link was clicked while the sidebar was open on mobile, and
\* the close is queued and in the cookie.
C11_Witness ==
    /\ last.op = "link" /\ last.arg = "false" /\ last.seen
    /\ isMobile /\ open /\ openProp = None /\ ~hasOnOpenChange
    /\ pendOpen = Some(FALSE)
    /\ CookieValues(cookie) = {<<"false">>}

\* C15: every keydown with meta or ctrl held and key "b" is prevented and
\* asks for the opposite of the open value the sidebar shows; every other
\* keydown is not prevented and changes neither the open state nor the
\* cookie.
C15_ShortcutToggles ==
    [][\A meta \in BOOLEAN, ctrl \in BOOLEAN, key \in Keys :
          KeyDown(meta, ctrl, key) =>
              IF (meta \/ ctrl) /\ key = "b"
              THEN last'.prevented /\ CalledSetOpen(~ExposedOpen)
              ELSE ~last'.prevented /\ OpenAndCookieUnchanged]_vars

\* The part of C15 that holds for every provider: with "toggle" read as the
\* opposite of the provider's internal open state.
C15_ShortcutTogglesInternal ==
    [][\A meta \in BOOLEAN, ctrl \in BOOLEAN, key \in Keys :
          KeyDown(meta, ctrl, key) =>
              IF (meta \/ ctrl) /\ key = "b"
              THEN last'.prevented /\ CalledSetOpen(~open)
              ELSE ~last'.prevented /\ OpenAndCookieUnchanged]_vars

\* ------------------------------------------------------------------------
\* Properties of the provider's open state on desktop and with an `open` prop

\* The provider owns the open state: neither `open` nor `onOpenChange` is given.
Uncontrolled == openProp = None /\ ~hasOnOpenChange

\* The last render has committed every queued update.
Rendered == mounted /\ pendMobile = None /\ pendOpen = None

\* The open state the sidebar_state cookie stands for: its value when that
\* is "true" or "false", and defaultOpen for any other value or no cookie.
OpenOfCookieValue ==
    IF CookieValues(cookie) = {<<"true">>} THEN TRUE
    ELSE IF CookieValues(cookie) = {<<"false">>} THEN FALSE
    ELSE defaultOpen

\* A resize that stays on desktop, and the going back to desktop that
\* follows an auto-collapse, queue the open state that was rendered on
\* desktop before.
DesktopResizeKeepsOpen ==
    /\ (Rendered /\ ~isMobile /\ last'.op = "checkMobile" /\ ~last'.mobile)
          => pendOpen' = Some(open)
    /\ (last.op = "render" /\ ~last.mobile /\ isMobile /\ pendOpen = Some(FALSE)
          /\ last'.op = "checkMobile" /\ ~last'.mobile)
          => pendOpen' = Some(open)

\* C22: in a provider without `open` and `onOpenChange`, every rendered
\* state with isMobile false has open equal to the cookie value when that is
\* "true" or "false" and to defaultOpen otherwise; a resize that stays on
\* desktop leaves open as it is, and desktop -> mobile -> desktop without a
\* setOpen call brings back the open state shown before.
C22_DesktopOpenIsCookie ==
    /\ [](Uncontrolled /\ Rendered /\ ~isMobile => open = OpenOfCookieValue)
    /\ [][Uncontrolled => DesktopResizeKeepsOpen]_vars

\* The part of C22 that holds: the same with the cookie value read as
\* checkMobile reads it.
C22_DesktopOpenIsCookieAsRead ==
    /\ [](Uncontrolled /\ Rendered /\ ~isMobile
            => open = OpenFromCookie(cookie, defaultOpen))
    /\ [][Uncontrolled => DesktopResizeKeepsOpen]_vars

\* C23: with an `open` prop the open value and the state label the context
\* exposes are the prop's; no step other than the parent passing a new prop
\* (a setOpen call, the shortcut, a measurement, a render with its
\* auto-collapse) changes them; and when onOpenChange is given as well, a
\* setOpen call hands the boolean it resolved to onOpenChange and leaves
\* the internal open state and its queue as they were.
C23_ControlledOpenIsProp ==
    /\ [](openProp # None =>
            /\ ExposedOpen = openProp[1]
            /\ ExposedState = (IF openProp[1] THEN "expanded" ELSE "collapsed"))
    /\ [][(openProp # None /\ last'.op # "parent") =>
            /\ ExposedOpen' = ExposedOpen /\ ExposedState' = ExposedState
            /\ (hasOnOpenChange /\ WasSetOpenCall') =>
                  /\ reported' = Some(last'.resolved)
                  /\ last'.resolved = ResolveOpen(last'.arg, open)
                  /\ open' = open /\ pendOpen' = pendOpen]_vars

\* C23 witness: a provider with open={false} and onOpenChange on desktop,
\* whose internal state is true, was asked to open: true went to
\* onOpenChange, and the sidebar shows closed with nothing queued.
C23_Witness ==
    /\ openProp = Some(FALSE) /\ hasOnOpenChange /\ WasSetOpenCall
    /\ last.resolved /\ reported = Some(TRUE)
    /\ ~isMobile /\ open /\ pendOpen = None
    /\ ~ExposedOpen /\ ExposedState = "collapsed"

\* The label goes with the open value.
LabelMatchesOpen(value) ==
    /\ value.state = "expanded" <=> value.open
    /\ value.state = "collapsed" <=> ~value.open

\* C30: in the context value of every state, and in what useSidebar() gave
\* a consumer, the state label is "expanded" exactly when the exposed open
\* value is true and "collapsed" exactly when it is false.
C30_StateLabelFollowsOpen ==
    /\ LabelMatchesOpen(ContextValue)
    /\ hookResult.value # None => LabelMatchesOpen(hookResult.value[1])

\* C30 witness: a consumer of a provider with open={true}, whose internal
\* state is false on mobile, got open = true and the label "expanded".
C30_Witness ==
    /\ openProp = Some(TRUE) /\ isMobile /\ ~open /\ pendOpen = None
    /\ last.op = "useSidebar" /\ hookResult.value # None
    /\ hookResult.value[1].open /\ hookResult.value[1].state = "expanded"

\* ------------------------------------------------------------------------
\* Properties of the toggle triggers Layout renders

\* The values the last useSidebar() call below the provider returned.
Consumed == hookResult.value[1]

\* The number of trigger elements in a list of elements.
Triggers(elements) == Cardinality({i \in 1..Len(elements) : elements[i] = Trigger})

\* C28: whatever isMobile and open the consumers get, Layout renders one
\* toggle trigger: the floating button when isMobile, the one in the
\* sidebar's header when not mobile and open, the one in the page header
\* when not mobile and closed.
C28_OneTrigger ==
    hookResult.value # None =>
        \A name \in SiteNames :
            LET view == LayoutView(Consumed, name)
            IN /\ Triggers(view.sidebarHeader) + Triggers(view.fab)
                    + Triggers(view.pageHeader) = 1
               /\ Consumed.isMobile => Triggers(view.fab) = 1
               /\ (~Consumed.isMobile /\ Consumed.open) => Triggers(view.sidebarHeader) = 1
               /\ (~Consumed.isMobile /\ ~Consumed.open) => Triggers(view.pageHeader) = 1

\* C28 witness: the consumers were rendered on desktop with the sidebar
\* closed by the user.
C28_Witness ==
    /\ hookResult.value # None /\ last.op = "useSidebar"
    /\ ~Consumed.isMobile /\ ~Consumed.open /\ Consumed.state = "collapsed"
    /\ Uncontrolled /\ defaultOpen /\ CookieValues(cookie) = {<<"false">>}

\* C29 as stated: the header renders the site name and, whenever isMobile
\* is false, a toggle trigger; with isMobile true it renders no trigger.
C29_HeaderTriggerOnDesktop ==
    hookResult.value # None =>
        \A name \in SiteNames :
            LET rendered == AppSidebarHeader(Consumed, name)
            IN /\ rendered[Len(rendered)] = name
               /\ Triggers(rendered) = (IF Consumed.isMobile THEN 0 ELSE 1)

\* C29 amended: the header renders the site name and, when isMobile is false
\* and the sidebar is open, a toggle trigger before it; with isMobile true,
\* or with the sidebar closed, it renders no trigger.
C29_HeaderTriggerOnDesktopWhenOpen ==
    hookResult.value # None =>
        \A name \in SiteNames :
            AppSidebarHeader(Consumed, name) =
                IF ~Consumed.isMobile /\ Consumed.open THEN <<Trigger, name>>
                ELSE <<name>>

\* C29 witness: AppSidebar was rendered on desktop with the sidebar open.
C29_Witness ==
    /\ hookResult.value # None /\ last.op = "useSidebar"
    /\ ~Consumed.isMobile /\ Consumed.open /\ Consumed.state = "expanded"
    /\ AppSidebarHeader(Consumed, "Site") = <<Trigger, "Site">>

\* ------------------------------------------------------------------------
\* Properties of the Sidebar panel

\* The translation that puts a panel fully off the edge it is anchored to.
OffEdge(side) == IF side = "left" THEN "-100%" ELSE "100%"

\* C31: the panel's width and translation depend on collapsible, open and
\* side only, at every viewport width: in mode "offcanvas" the panel is
\* translated fully off its edge exactly when closed and has the full
\* width; in mode "icon" it has the icon width exactly when closed and is
\* not translated; in mode "none" it has the full width and is not
\* translated, open or closed.
C31_PanelFollowsMode ==
    hookResult.value # None =>
        \A collapsible \in Collapsibles, side \in Sides :
            LET panel == Sidebar(Consumed, collapsible, side, width)
                closed == ~Consumed.open
            IN CASE collapsible = "offcanvas" ->
                      /\ panel.translate = (IF closed THEN OffEdge(side) ELSE "0")
                      /\ panel.width = SIDEBAR_WIDTH
                 [] collapsible = "icon" ->
                      /\ panel.width = (IF closed THEN SIDEBAR_WIDTH_ICON
                                        ELSE SIDEBAR_WIDTH)
                      /\ panel.translate = "0"
                 [] collapsible = "none" ->
                      /\ panel.width = SIDEBAR_WIDTH
                      /\ panel.translate = "0"

\* C31 witness: the panel was rendered open in a viewport below the
\* breakpoint, where the max-md class names apply: as an off-canvas panel
\* anchored right it is in view at full width.
C31_Witness ==
    /\ hookResult.value # None /\ last.op = "useSidebar"
    /\ width < MOBILE_BREAKPOINT /\ Consumed.isMobile /\ Consumed.open
    /\ Sidebar(Consumed, "offcanvas", "right", width)
         = [dataState |-> "expanded", width |-> SIDEBAR_WIDTH, translate |-> "0"]

\* ------------------------------------------------------------------------
\* Properties of Layout's breadcrumbs

\* The non-empty segments of the rendered path, and the rendered list.
Segments == NonEmpty(Split(bcPathname, "/"))
Crumbs == breadcrumbs[1]

\* A segment with hyphens turned into spaces and the first letter of every
\* word in upper case.
TitleCase(segment) ==
    [i \in 1..Len(segment) |->
        IF segment[i] = "-" THEN " "
        ELSE IF i = 1 \/ segment[i - 1] = "-" THEN ToUpperCase(segment[i])
        ELSE segment[i]]

\* The routeNames entry keyed by a segment, when there is one with a
\* non-empty label.
HasEntry(segment) == \E e \in routeNames : e.key = segment /\ e.label # <<>>
EntryLabel(segment) == (CHOOSE e \in routeNames : e.key = segment).label

\* The label the claimed priority gives segment i, with the dynamic label the
\* component holds when it renders.
ClaimedLabel(i) ==
    IF i = Len(Segments) /\ getBreadcrumbLabel # "absent" /\ Truthy(dynamicLabel)
    THEN dynamicLabel[1]
    ELSE IF HasEntry(Segments[i]) THEN EntryLabel(Segments[i])
    ELSE TitleCase(Segments[i])

\* C12: the label of every segment is the dynamic label when the segment is
\* the final one and the resolver gave a non-empty string, else the
\* routeNames entry keyed by the raw segment, else the segment in title
\* case; a dynamic label never goes to a non-final segment.  (An entry is
\* read as present when its label is a non-empty string; the check is made
\* when the label effect has run, so that the list was rendered with the
\* dynamic label the component holds.)
C12_LabelPriority ==
    (breadcrumbs # None /\ ~bcEffectPending) =>
        \A i \in 1..Len(Segments) : Crumbs[i + 1].label = ClaimedLabel(i)

\* The part of C12 that holds: for the segments that are not the name of a
\* property inherited from Object.prototype.
C12_LabelPriorityOwnNames ==
    (breadcrumbs # None /\ ~bcEffectPending) =>
        \A i \in 1..Len(Segments) :
            Segments[i] \notin ObjectPrototypeNames
                => Crumbs[i + 1].label = ClaimedLabel(i)

\* C13: the list is Home with href "/" followed by one entry per non-empty
\* segment in order, the i-th with the href "/" + the first i segments
\* joined by "/"; and "/posts/my-first-post" without overrides gives Home,
\* Posts, My First Post.
C13_HomeThenSegments ==
    breadcrumbs # None =>
        /\ Len(Crumbs) = 1 + Len(Segments)
        /\ Crumbs[1].label = Str_Home /\ Crumbs[1].href = <<"/">>
        /\ \A i \in 1..Len(Segments) :
              Crumbs[i + 1].href = <<"/">> \o Join(SubSeq(Segments, 1, i), <<"/">>)
        /\ (bcPathname = ExamplePath /\ routeNames = {} /\ getBreadcrumbLabel = "absent")
              => /\ [i \in 1..3 |-> Crumbs[i].label]
                      = << Str_Home, <<"P", "o", "s", "t", "s">>,
                           <<"M", "y", " ", "F", "i", "r", "s", "t", " ", "P", "o", "s", "t">> >>
                 /\ [i \in 1..3 |-> Crumbs[i].href]
                      = << <<"/">>, <<"/">> \o Str_posts, ExamplePath >>

\* C13 witness: the example path has been rendered with no overrides.
C13_Witness ==
    /\ breadcrumbs # None /\ bcPathname = ExamplePath
    /\ routeNames = {} /\ getBreadcrumbLabel = "absent"
    /\ Len(Crumbs) = 3 /\ Crumbs[3].href = ExamplePath

\* C14: for every path the last entry of the list is marked terminal and
\* rendered as text, and every other entry is not and is rendered as a link.
C14_LastEntryIsTerminal ==
    breadcrumbs # None =>
        \A i \in 1..Len(Crumbs) :
            /\ Crumbs[i].isLast = (i = Len(Crumbs))
            /\ header[i] = IF i = Len(Crumbs) THEN "page" ELSE "link"

\* The part of C14 that holds: on a path with at least one segment.
C14_LastEntryIsTerminalBelowRoot ==
    (breadcrumbs # None /\ Len(Segments) > 0) =>
        \A i \in 1..Len(Crumbs) :
            /\ Crumbs[i].isLast = (i = Len(Crumbs))
            /\ header[i] = IF i = Len(Crumbs) THEN "page" ELSE "link"

\* The last render put the dynamic label on the final segment: a resolver
\* is given, the path has a segment, and the label state it rendered with
\* is a non-empty string.
DynamicLabelShown ==
    /\ breadcrumbs # None /\ Segments # <<>>
    /\ getBreadcrumbLabel # "absent" /\ Truthy(dynamicLabel)
    /\ Crumbs[Len(Crumbs)].label = dynamicLabel[1]

\* C24: in every render a dynamic label shown for the final segment is the
\* resolver's result for the path that is rendered.
C24_DynamicLabelIsCurrent ==
    DynamicLabelShown =>
        Some(Crumbs[Len(Crumbs)].label) = ResolverResult(getBreadcrumbLabel, bcPathname)

\* The part of C24 that holds: once the label effect has run for the path.
C24_DynamicLabelIsCurrentAfterEffect ==
    (DynamicLabelShown /\ ~bcEffectPending) =>
        Some(Crumbs[Len(Crumbs)].label) = ResolverResult(getBreadcrumbLabel, bcPathname)

\* ------------------------------------------------------------------------
\* Properties of Layout's scroll restore

\* The step ran the restore effect: the first render, or a path change.
Arrives == lyMounted' # lyMounted \/ pathname' # pathname

\* The step ran tryRestore of some poll.
PollMoves == ~Arrives /\ polls' # polls

\* The step fired the grace timer of the latest arrival.
LatestSettles == ~Arrives /\ graces.latest /\ ~graces'.latest

\* The offset stored for the path arrived at is greater than zero.
StoredPositive(positions, path) == positions[path] # None /\ positions[path][1] > 0

\* What the claim allows tryRestore of poll p to do: the one jump, at the
\* first attempt that finds content or at the 10th, or no move at all.
JumpsOrWaits(p) ==
    LET attempt == p.attempts + 1
        content == scrollHeight > ViewportHeight
        target == Min(p.saved, scrollHeight - ViewportHeight)
    IN \/ /\ content \/ attempt = maxAttempts
          /\ polls' = polls (-) OneOf(p)
          /\ scrollY' = Max(0, Min(target, MaxScrollFor(scrollHeight)))
       \/ /\ ~content /\ attempt < maxAttempts
          /\ polls' = (polls (-) OneOf(p)) (+) OneOf([p EXCEPT !.attempts = attempt])
          /\ scrollY' = scrollY

RestoreWithStoredOffset ==
    /\ Arrives /\ StoredPositive(scrollPositions', pathname')
         => BagIn([saved |-> scrollPositions'[pathname'][1], attempts |-> 0,
                   latest |-> TRUE], polls')
    /\ PollMoves => \E p \in BagToSet(polls) : JumpsOrWaits(p)
    /\ \A p \in BagToSet(polls') : p.saved > 0 /\ p.attempts < maxAttempts

TopArrival ==
    /\ Arrives /\ ~StoredPositive(scrollPositions', pathname')
         => isRestoringRef' /\ scrollY' = 0
    /\ LatestSettles /\ arrivalKind = "top" /\ ~userScrolled => scrollY' = 0

\* C4: an arrival at a path with no stored offset, or the stored offset 0,
\* sets the restoring flag and jumps the window to 0 in the effect run, and
\* when that arrival's grace timer fires, the user not having scrolled, the
\* window is at offset 0.
C4_TopArrivalEndsAtZero == [][TopArrival]_vars

\* The part of C4 about the effect run itself.
C4_TopArrivalJumpsToZero ==
    [][Arrives /\ ~StoredPositive(scrollPositions', pathname')
         => isRestoringRef' /\ scrollY' = 0]_vars

\* The step ran tryRestore of poll p, a poll of an arrival earlier than the
\* latest one: its path is no longer the current one.
EarlierPollStep(p) ==
    /\ ~Arrives /\ BagIn(p, polls) /\ ~p.latest
    /\ \/ polls' = polls (-) OneOf(p)
       \/ polls' = (polls (-) OneOf(p)) (+) OneOf([p EXCEPT !.attempts = @ + 1])

\* C16: the callbacks still pending for a path that was left while its
\* restore poll was in flight never move the window while another path is
\* current (nor, by a scroll event of such a move, have a value stored for
\* that path): a run of tryRestore of an earlier arrival's poll leaves the
\* window's offset and the pending scroll event as they are.
C16_EarlierPollsHarmless ==
    [][\A p \in BagToSet(polls) :
          EarlierPollStep(p) => scrollY' = scrollY /\ scrollEvent' = scrollEvent]_vars

\* The restore of the latest arrival is under way: its poll has not jumped
\* yet, or its grace timer has not fired yet.
RestoreUnderWay == graces.latest \/ \E p \in BagToSet(polls) : p.latest

\* The scroll listener runs for a pending scroll event.
ScrollHandled == scrollEvent /\ ~scrollEvent'

\* C17: from the start of the restore for the current path until its grace
\* timer has fired, no scroll event leads to a write into the position map:
\* the listener, run in that span, leaves the debounce timer as it was (the
\* timer's callback is the only write a scroll event leads to), and no step
\* other than an arrival, whose save effect stores the outgoing offset,
\* changes the map in that span.
C17_NoWriteWhileRestoring ==
    [][RestoreUnderWay =>
          /\ ScrollHandled => scrollTimeout' = scrollTimeout
          /\ ~Arrives => scrollPositions' = scrollPositions]_vars

\* The debounce timer's callback ran: the window's offset is stored under
\* the path of the listener that set the timer.
DebounceWrote ==
    /\ scrollTimeout # None /\ scrollTimeout' = None
    /\ scrollPositions' = [scrollPositions EXCEPT ![scrollTimeout[1]] = Some(scrollY)]

\* The offset the window has when the effects of an arrival run: the
\* browser has kept it within the page it arrives at.
OffsetOnArrival == Min(scrollY, MaxScrollFor(scrollHeight'))

C19_RestoreTerminates ==
    /\ [](\A p \in BagToSet(polls) : p.attempts < maxAttempts)
    /\ (isRestoringRef ~> ~isRestoringRef)

\* C19 witness: the arrival at the current path polled for a page that
\* never grew beyond the viewport, and the restore is over: no poll or grace
\* timer is left and the flag is false.
C19_Witness ==
    /\ lyMounted /\ arrivalKind = "poll" /\ ~userScrolled
    /\ StoredPositive(scrollPositions, pathname)
    /\ scrollHeight = ViewportHeight /\ scrollY = 0
    /\ polls = EmptyBag /\ graces = [latest |-> FALSE, earlier |-> 0]
    /\ ~isRestoringRef

\* The poll started by the arrival at the current path has not jumped yet.
LatestPollPending == \E p \in BagToSet(polls) : p.latest

\* C20: leaving a path whose restore poll has not jumped yet leaves the
\* offset stored for that path as it was.
C20_LeavingBeforeJumpKeepsOffset ==
    [][(lyMounted /\ LatestPollPending /\ pathname' # pathname)
          => scrollPositions'[pathname] = scrollPositions[pathname]]_vars

\* The grace timer of an earlier arrival fires.
EarlierGraceFires == ~Arrives /\ graces'.earlier < graces.earlier

\* C21: the grace timer of an earlier arrival does not clear the restoring
\* flag while the restore of the latest arrival is still polling or within
\* its own grace delay.
C21_OnlyLatestGraceClears ==
    [][(RestoreUnderWay /\ EarlierGraceFires) => isRestoringRef' = isRestoringRef]_vars

\* C25: a debounced save writes under the path that is current when its
\* timer fires.  A pending timer is the one of the current path's listener;
\* a change of path cancels it; a handled scroll event leaves one timer, the
\* one it has set anew; and the timer's callback stores the window's offset
\* under the current path and nothing else.
C25_DebounceWritesCurrentPath ==
    /\ [](scrollTimeout # None => scrollTimeout = Some(pathname))
    /\ [][/\ pathname' # pathname => scrollTimeout' = None
          /\ ScrollHandled => scrollTimeout' \in {scrollTimeout, Some(pathname)}
          /\ (pathname' = pathname /\ scrollTimeout # None /\ scrollTimeout' = None)
                => scrollPositions' = [scrollPositions EXCEPT ![pathname] = Some(scrollY)]]_vars

\* C25 witness: /b was reached with nothing stored for it, the user
\* scrolled it to offset 1, and the debounce timer has stored 1 under /b;
\* /a keeps the offset 2 it was left at.
C25_Witness ==
    /\ lyMounted /\ pathname = "/b" /\ arrivalKind = "top" /\ userScrolled
    /\ scrollPositions = [p \in Paths |-> IF p = "/b" THEN Some(1) ELSE Some(2)]
    /\ scrollY = 1 /\ scrollTimeout = None /\ ~scrollEvent

\* C26: the map holds at most one offset per path and is never pruned.  It
\* is empty until Layout has mounted; an entry, once there, stays (its key
\* set only grows); and a step changes the map at one key only, the path
\* that is current before the step: the outgoing path when the step is a
\* change of path, the current path when it is the debounce timer's
\* callback.  So every key has been the current path.
C26_MapOnlyGrows ==
    /\ [](~lyMounted => scrollPositions = [p \in Paths |-> None])
    /\ [](\A p \in Paths : Len(scrollPositions[p]) <= 1)
    /\ [][\A p \in Paths :
            /\ scrollPositions[p] # None => scrollPositions'[p] # None
            /\ scrollPositions'[p] # scrollPositions[p] =>
                  /\ p = pathname
                  /\ \/ pathname' # pathname
                     \/ pathname' = pathname /\ DebounceWrote]_vars

\* C26 witness: /a was left at offset 1 and has been reached again, /b was
\* left at the top: both paths have their entry.
C26_Witness ==
    /\ lyMounted /\ pathname = "/a" /\ arrivalKind = "poll"
    /\ scrollPositions = [p \in Paths |-> IF p = "/a" THEN Some(1) ELSE Some(0)]

\* A poll's attempt jumps: the poll ends and no other poll changes.
PollJumps(p) == ~Arrives /\ BagIn(p, polls) /\ polls' = polls (-) OneOf(p)

\* C27: the offset a restore jumps to, min(s, scrollHeight - viewportHeight)
\* for the stored offset s, is within 0..s, also when the poll gives up at
\* its 10th attempt on a page that is not higher than the viewport.
C27_JumpTargetInRange ==
    [][\A p \in BagToSet(polls) :
          PollJumps(p) => ActualPosition(p.saved, scrollHeight) \in 0..p.saved]_vars

\* The part of C27 that holds: the window is within 0..s after the jump.
C27_WindowInRangeAfterJump ==
    [][\A p \in BagToSet(polls) : PollJumps(p) => scrollY' \in 0..p.saved]_vars

====
